---- MODULE Spec2Model ----
(***************************************************************************)
(* Model of workouts.py: Pace, Lap, IntervalLapMatcher and WorkoutSummary. *)
(*                                                                         *)
(* Numbers.  Distances are whole metres, times whole seconds, heart rates  *)
(* whole beats per minute.  Every quotient the code takes is kept as an    *)
(* exact rational (numerator, denominator), so a comparison such as        *)
(* distance / time >= interval_pace_mps is decided by cross                *)
(* multiplication.  Values the code rounds to two decimals are kept as     *)
(* whole hundredths.                                                       *)
(*                                                                         *)
(* The code computes in double precision.  Where the exact quotient is     *)
(* not on a boundary of round() or int(), the double gives what the exact  *)
(* quotient gives.  On a boundary the double may fall on either side:      *)
(*   - round(q) of a quotient q that is exactly half way between two       *)
(*     integers gives either of them (RoundFloat);                         *)
(*   - int(q) of a quotient q that is a whole number gives q or q - 1      *)
(*     (the flag below of minutes_per_km and seconds_per_km).              *)
(* An operator over such a quotient gives the set of its possible          *)
(* outcomes.  A quotient whose half-way values are doubles (sum / len of   *)
(* whole numbers) is rounded half to even, as Python 3 does (Round).       *)
(*                                                                         *)
(* Indices are the code's 0-based indices; laps[i] of the code is          *)
(* laps[i + 1] here.                                                       *)
(***************************************************************************)
EXTENDS Integers, Sequences, FiniteSets

VARIABLES
    laps,                   \* the laps parsed from the activity's .tcx file
    interval_pace_mps,      \* IntervalLapMatcher.interval_pace_mps, a rational
    min_interval_distance,  \* IntervalLapMatcher.min_interval_distance
    pc,                     \* where the main program stands
    start_idx,              \* interval_laps: start_idx
    next_idx,               \* interval_laps: next_idx
    interval,               \* interval_laps: interval; <<>> is None, <<lap>> a Lap
    intv_laps,              \* interval_laps: intv_laps, the result being built
    spans,                  \* history: the input index range [lo, hi) behind each entry of intv_laps
    calls,                  \* history: the argument of every Lap.from_multiple call
    workout,                \* WorkoutSummary.laps; <<>> before construction
    dict_out,               \* what WorkoutSummary.as_dict gave
    csv_out,                \* what WorkoutSummary.csv gave
    distance_m,             \* Pace.__init__: distance_m
    time_s,                 \* Pace.__init__: time_s
    pace,                   \* Pace.__init__: its outcome
    comb_laps,              \* Lap.from_multiple: laps
    aggr                    \* Lap.from_multiple: its outcome

vars == <<laps, interval_pace_mps, min_interval_distance, pc, start_idx, next_idx,
          interval, intv_laps, spans, calls, workout, dict_out, csv_out,
          distance_m, time_s, pace, comb_laps, aggr>>

matcher_vars == <<laps, interval_pace_mps, min_interval_distance, start_idx, next_idx,
                  interval, intv_laps, spans, calls, workout, dict_out, csv_out>>

pace_vars == <<distance_m, time_s, pace>>

lap_vars == <<comb_laps, aggr>>

(***************************************************************************)
(* Bounds of the model.                                                    *)
(***************************************************************************)
MaxLaps == 4

MaxCombine == 3

MaxPaceArg == 9

(***************************************************************************)
(* Arithmetic helpers.                                                     *)
(***************************************************************************)
\* floor(n / d) for d # 0
FloorDiv(n, d) == IF d > 0 THEN n \div d ELSE (0 - n) \div (0 - d)

\* round(q) for q the double nearest n / d computed through an inexact
\* intermediate: the nearest integer, either neighbour when n / d is half way
RoundFloat(n, d) ==
    LET nn == IF d > 0 THEN n ELSE 0 - n
        dd == IF d > 0 THEN d ELSE 0 - d
        q  == nn \div dd
        r  == nn % dd
    IN  IF 2 * r < dd THEN {q}
        ELSE IF 2 * r > dd THEN {q + 1}
        ELSE {q, q + 1}

\* Python 3 round(n / d): to the nearest integer, a tie to the even one (d # 0)
Round(n, d) ==
    LET nn == IF d > 0 THEN n ELSE 0 - n
        dd == IF d > 0 THEN d ELSE 0 - d
        q  == nn \div dd
        r  == nn % dd
    IN  IF 2 * r < dd THEN q
        ELSE IF 2 * r > dd THEN q + 1
        ELSE IF q % 2 = 0 THEN q ELSE q + 1

RECURSIVE SumOf(_, _)
\* sum([f(x) for x in s]) with f one of the Lap fields
SumOf(s, f) == IF s = <<>> THEN 0 ELSE s[1][f] + SumOf(Tail(s), f)

RECURSIVE MaxOf(_, _)
\* max([x.f for x in s]) of a non-empty s
MaxOf(s, f) ==
    IF Len(s) = 1 THEN s[1][f]
    ELSE LET m == MaxOf(Tail(s), f) IN IF s[1][f] >= m THEN s[1][f] ELSE m

RECURSIVE MinOf(_, _)
\* min([x.f for x in s]) of a non-empty s
MinOf(s, f) ==
    IF Len(s) = 1 THEN s[1][f]
    ELSE LET m == MinOf(Tail(s), f) IN IF s[1][f] <= m THEN s[1][f] ELSE m

(***************************************************************************)
(* Lap                                                                     *)
(***************************************************************************)
Lap(distance, time, avg_hr, max_hr) ==
    [distance |-> distance, time |-> time, avg_hr |-> avg_hr, max_hr |-> max_hr]

\* Lap.pace() >= a rational speed num/den (time > 0, den > 0)
PaceAtLeast(lap, speed) == lap.distance * speed.den >= speed.num * lap.time

\* Lap.pace() of a < Lap.pace() of b (both times > 0)
SlowerThan(a, b) == a.distance * b.time < b.distance * a.time

\* Lap._heartbeats: round(avg_hr * (time / 60.0))
heartbeats(lap) == RoundFloat(lap.avg_hr * lap.time, 60)

RECURSIVE SumHeartbeats(_)
\* sum([lap._heartbeats() for lap in laps])
SumHeartbeats(s) ==
    IF s = <<>> THEN {0}
    ELSE {h + t : h \in heartbeats(s[1]), t \in SumHeartbeats(Tail(s))}

\* Lap.from_multiple: an empty list (or a total time of 0) divides by zero
from_multiple(ls) ==
    IF SumOf(ls, "time") = 0
    THEN {[raised |-> TRUE, lap |-> Lap(0, 0, 0, 0)]}
    ELSE {[raised |-> FALSE,
           lap |-> Lap(SumOf(ls, "distance"), SumOf(ls, "time"), a, MaxOf(ls, "max_hr"))] :
            a \in UNION {RoundFloat(60 * h, SumOf(ls, "time")) : h \in SumHeartbeats(ls)}}

(***************************************************************************)
(* IntervalLapMatcher                                                      *)
(***************************************************************************)
\* --min-interval-distance, default
DefaultMinIntervalDistance == 150

\* main: interval_pace = 1000.0 / (60.0 * mins + secs), from --interval-pace MM:SS
interval_pace(mins, secs) == [num |-> 1000, den |-> 60 * mins + secs]

\* a variant of _is_interval_pace: > where the code has >=
is_interval_pace_strict(lap) ==
    lap.distance * interval_pace_mps.den > interval_pace_mps.num * lap.time

\* IntervalLapMatcher._is_interval_pace
is_interval_pace(lap) == PaceAtLeast(lap, interval_pace_mps)

\* a variant of _is_interval_lap: the distance is not looked at
is_interval_lap_pace_only(lap) == is_interval_pace(lap)

\* IntervalLapMatcher._is_interval_lap
is_interval_lap(lap) ==
    is_interval_pace(lap) /\ lap.distance >= min_interval_distance

RECURSIVE seed_from_pace_only(_, _)
\* a variant of the seed loop: it tests _is_interval_pace, not _is_interval_lap
seed_from_pace_only(ls, i) ==
    IF i >= Len(ls) THEN -1
    ELSE IF is_interval_pace(ls[i + 1]) THEN i
    ELSE seed_from_pace_only(ls, i + 1)

RECURSIVE seed_from(_, _)
\* interval_laps: the for loop that looks for the first interval lap, from index i
seed_from(ls, i) ==
    IF i >= Len(ls) THEN -1
    ELSE IF is_interval_lap(ls[i + 1]) THEN i
    ELSE seed_from(ls, i + 1)

\* a variant of the run loop: if where the code has while
run_end_once(ls, i) ==
    IF i < Len(ls) /\ is_interval_pace(ls[i + 1]) THEN i + 1 ELSE i

RECURSIVE run_end(_, _)
\* _next_interval: while i < len(laps) and self._is_interval_pace(laps[i]): i += 1
run_end(ls, i) ==
    IF i < Len(ls) /\ is_interval_pace(ls[i + 1]) THEN run_end(ls, i + 1) ELSE i

\* a variant of the slice: laps[start_idx:i + 1]
Slice_inclusive(ls, lo, hi) ==
    SubSeq(ls, lo + 1, IF hi + 1 < Len(ls) THEN hi + 1 ELSE Len(ls))

\* laps[start_idx:i]
Slice(ls, lo, hi) == SubSeq(ls, lo + 1, IF hi < Len(ls) THEN hi ELSE Len(ls))

\* a variant of _next_interval: without if i == start_idx: return None, i
next_interval_unguarded(ls, start) ==
    LET i == run_end(ls, start) IN
    {[called |-> TRUE, raised |-> r.raised,
      interval |-> IF r.raised THEN <<>> ELSE <<r.lap>>, end |-> i] :
        r \in from_multiple(Slice(ls, start, i))}

\* IntervalLapMatcher._next_interval; called says whether Lap.from_multiple ran
next_interval(ls, start) ==
    LET i == run_end(ls, start) IN
    IF i = start
    THEN {[called |-> FALSE, raised |-> FALSE, interval |-> <<>>, end |-> i]}
    ELSE {[called |-> TRUE, raised |-> r.raised,
           interval |-> IF r.raised THEN <<>> ELSE <<r.lap>>, end |-> i] :
            r \in from_multiple(Slice(ls, start, i))}

\* interval_laps: no lap is an interval lap, return []
NoSeed ==
    /\ pc = "interval_laps"
    /\ seed_from(laps, 0) < 0
    /\ start_idx' = -1
    /\ intv_laps' = <<>>
    /\ pc' = "returned"
    /\ UNCHANGED <<laps, interval_pace_mps, min_interval_distance, next_idx, interval,
                   spans, calls, workout, dict_out, csv_out>>
    /\ UNCHANGED <<pace_vars, lap_vars>>

\* interval_laps: the first interval lap starts the sequence
SeedFound ==
    /\ pc = "interval_laps"
    /\ seed_from(laps, 0) >= 0
    /\ start_idx' = seed_from(laps, 0)
    /\ next_idx' = seed_from(laps, 0)
    /\ intv_laps' = <<>>
    /\ pc' = "while"
    /\ UNCHANGED <<laps, interval_pace_mps, min_interval_distance, interval,
                   spans, calls, workout, dict_out, csv_out>>
    /\ UNCHANGED <<pace_vars, lap_vars>>

\* interval_laps: while next_idx < len(laps) fails, return intv_laps
WhileExit ==
    /\ pc = "while"
    /\ next_idx >= Len(laps)
    /\ pc' = "returned"
    /\ UNCHANGED matcher_vars
    /\ UNCHANGED <<pace_vars, lap_vars>>

\* interval_laps: interval, next_idx = self._next_interval(laps, next_idx)
NextInterval ==
    /\ pc = "while"
    /\ next_idx < Len(laps)
    /\ \E r \in next_interval(laps, next_idx) :
        /\ interval' = r.interval
        /\ next_idx' = r.end
        /\ calls' = IF r.called
                    THEN Append(calls, [start |-> next_idx, end |-> r.end,
                                        laps |-> Slice(laps, next_idx, r.end)])
                    ELSE calls
        /\ pc' = IF r.raised THEN "interval_laps_raised" ELSE "if_interval"
    /\ UNCHANGED <<laps, interval_pace_mps, min_interval_distance, start_idx,
                   intv_laps, spans, workout, dict_out, csv_out>>
    /\ UNCHANGED <<pace_vars, lap_vars>>

\* interval_laps: if not interval: break
Break ==
    /\ pc = "if_interval"
    /\ interval = <<>>
    /\ pc' = "returned"
    /\ UNCHANGED matcher_vars
    /\ UNCHANGED <<pace_vars, lap_vars>>

\* interval_laps: intv_laps.append(interval)
AppendInterval ==
    /\ pc = "if_interval"
    /\ interval # <<>>
    /\ intv_laps' = Append(intv_laps, interval[1])
    /\ spans' = Append(spans, [lo |-> calls[Len(calls)].start, hi |-> calls[Len(calls)].end])
    /\ pc' = "if_recovery"
    /\ UNCHANGED <<laps, interval_pace_mps, min_interval_distance, start_idx, next_idx,
                   interval, calls, workout, dict_out, csv_out>>
    /\ UNCHANGED <<pace_vars, lap_vars>>

\* interval_laps: if next_idx < len(laps): add recovery lap
AddRecovery ==
    /\ pc = "if_recovery"
    /\ next_idx < Len(laps)
    /\ intv_laps' = Append(intv_laps, laps[next_idx + 1])
    /\ spans' = Append(spans, [lo |-> next_idx, hi |-> next_idx + 1])
    /\ next_idx' = next_idx + 1
    /\ pc' = "while"
    /\ UNCHANGED <<laps, interval_pace_mps, min_interval_distance, start_idx,
                   interval, calls, workout, dict_out, csv_out>>
    /\ UNCHANGED <<pace_vars, lap_vars>>

\* interval_laps: the input ended with the interval, no recovery lap to add
NoRecovery ==
    /\ pc = "if_recovery"
    /\ next_idx >= Len(laps)
    /\ pc' = "while"
    /\ UNCHANGED matcher_vars
    /\ UNCHANGED <<pace_vars, lap_vars>>

(***************************************************************************)
(* Pace                                                                    *)
(***************************************************************************)
\* int(x) of the rational n / d: towards zero (d # 0)
Trunc(n, d) ==
    IF (n >= 0) = (d > 0) THEN FloorDiv(n, d) ELSE 0 - FloorDiv(0 - n, d)

DigitChars == <<"0", "1", "2", "3", "4", "5", "6", "7", "8", "9">>

RECURSIVE Digits(_)
\* the decimal digits of n >= 0
Digits(n) ==
    IF n < 10 THEN <<DigitChars[n + 1]>>
    ELSE Digits(n \div 10) \o <<DigitChars[(n % 10) + 1]>>

RECURSIVE ZeroPad(_, _)
ZeroPad(s, width) == IF Len(s) >= width THEN s ELSE ZeroPad(<<"0">> \o s, width)

\* '{:02d}'.format(n): at least two characters, the sign counted among them
fmt_02d(n) ==
    IF n < 0 THEN <<"-">> \o ZeroPad(Digits(0 - n), 1) ELSE ZeroPad(Digits(n), 2)

\* n / d is a whole number (d # 0)
Whole(n, d) == n % (IF d > 0 THEN d ELSE 0 - d) = 0

\* Pace.__init__: minutes_per_km = int(math.floor(min_per_km)),
\* with min_per_km = 1.0 / ((distance_m / time_s) * 60.0 / 1000.0) = 1000 t / (60 d);
\* below: the double fell below the exact quotient
minutes_per_km(d, t, below) ==
    IF below /\ Whole(1000 * t, 60 * d)
    THEN FloorDiv(1000 * t, 60 * d) - 1
    ELSE FloorDiv(1000 * t, 60 * d)

\* a variant of seconds_per_km: int(round((min_per_km - minutes_per_km) * 60)),
\* as pace.py has it
seconds_per_km_rounded(d, t, below) ==
    Round(1000 * t - 60 * d * minutes_per_km(d, t, below), d)

\* Pace.__init__: seconds_per_km = int((min_per_km - minutes_per_km) * 60)
seconds_per_km(d, t, below) ==
    LET x == Trunc(1000 * t - 60 * d * minutes_per_km(d, t, below), d) IN
    IF below THEN x - 1 ELSE x

\* Pace.__init__: self.pace = '{:02d}:{:02d}'.format(minutes_per_km, seconds_per_km)
PaceString(d, t, below) ==
    fmt_02d(minutes_per_km(d, t, below)) \o <<":">> \o fmt_02d(seconds_per_km(d, t, below))

\* None where a Pace is expected
NoPace == [raised |-> FALSE, none |-> TRUE, paces |-> {}]

\* Pace.__init__: time_s = 0 and distance_m = 0 divide by zero; paces holds the
\* strings self.pace may be: one, or two when 1000 t / d is a whole number of
\* seconds, which the double may reach or fall just below
Pace(d, t) ==
    IF t = 0 \/ d = 0
    THEN [raised |-> TRUE, none |-> FALSE, paces |-> {}]
    ELSE [raised |-> FALSE, none |-> FALSE,
          paces |-> {PaceString(d, t, FALSE)} \cup
                    (IF Whole(1000 * t, d) THEN {PaceString(d, t, TRUE)} ELSE {})]

\* str(p) of a Pace or of None: the strings it may be
str(p) == IF p.none THEN {<<"N", "o", "n", "e">>} ELSE p.paces

(***************************************************************************)
(* WorkoutSummary                                                          *)
(***************************************************************************)
RECURSIVE ByParity(_, _, _)
\* [lap for i, lap in enumerate(ls) if i % 2 == parity], i counted from i0
ByParity(ls, i0, parity) ==
    IF ls = <<>> THEN <<>>
    ELSE (IF i0 % 2 = parity THEN <<ls[1]>> ELSE <<>>) \o ByParity(Tail(ls), i0 + 1, parity)

\* WorkoutSummary.interval_laps
summary_interval_laps(ls) == ByParity(ls, 0, 0)

\* a variant of recovery_laps: i % 2 == 0
recovery_laps_even(ls) == ByParity(ls, 0, 0)

\* WorkoutSummary.recovery_laps
recovery_laps(ls) == ByParity(ls, 0, 1)

\* the statistics rounded to 2 decimals are in hundredths
avg_time(ls) == IF ls = <<>> THEN 0 ELSE Round(100 * SumOf(ls, "time"), Len(ls))

max_time(ls) == IF ls = <<>> THEN 0 ELSE 100 * MaxOf(ls, "time")

min_time(ls) == IF ls = <<>> THEN 0 ELSE 100 * MinOf(ls, "time")

avg_distance(ls) == IF ls = <<>> THEN 0 ELSE Round(100 * SumOf(ls, "distance"), Len(ls))

avg_pace(ls) ==
    IF ls = <<>> THEN NoPace ELSE Pace(SumOf(ls, "distance"), SumOf(ls, "time"))

RECURSIVE SlowestLap(_, _)
\* min(laps, key=methodcaller('pace')): the first lap of the least pace
SlowestLap(ls, best) ==
    IF ls = <<>> THEN best
    ELSE SlowestLap(Tail(ls), IF SlowerThan(ls[1], best) THEN ls[1] ELSE best)

RECURSIVE FastestLap(_, _)
\* max(laps, key=methodcaller('pace')): the first lap of the greatest pace
FastestLap(ls, best) ==
    IF ls = <<>> THEN best
    ELSE FastestLap(Tail(ls), IF SlowerThan(best, ls[1]) THEN ls[1] ELSE best)

slowest_pace(ls) ==
    IF ls = <<>> THEN NoPace
    ELSE LET lap == SlowestLap(Tail(ls), ls[1]) IN Pace(lap.distance, lap.time)

fastest_pace(ls) ==
    IF ls = <<>> THEN NoPace
    ELSE LET lap == FastestLap(Tail(ls), ls[1]) IN Pace(lap.distance, lap.time)

avg_hr(ls) == IF ls = <<>> THEN 0 ELSE Round(SumOf(ls, "avg_hr"), Len(ls))

max_hr(ls) == IF ls = <<>> THEN 0 ELSE MaxOf(ls, "max_hr")

\* activity_time.strftime('%Y-%m-%d %H:%M:%S'), an opaque label
WorkoutTime == "2020-06-04 05:11:37"

\* the ten statistics as_dict and csv compute for one group of laps
Block(ls) ==
    [distance  |-> avg_distance(ls),
     count     |-> Len(ls),
     avg_time  |-> avg_time(ls),
     max_time  |-> max_time(ls),
     min_time  |-> min_time(ls),
     avg_pace  |-> avg_pace(ls),
     slow_pace |-> slowest_pace(ls),
     fast_pace |-> fastest_pace(ls),
     avg_hr    |-> avg_hr(ls),
     max_hr    |-> max_hr(ls)]

\* a Pace constructor raised while the group's statistics were computed
BlockRaised(b) == b.avg_pace.raised \/ b.slow_pace.raised \/ b.fast_pace.raised

\* the group's entry of as_dict: the paces through str(), each the set of the
\* strings it may be
DictBlock(b) ==
    [distance  |-> b.distance,
     count     |-> b.count,
     avg_time  |-> b.avg_time,
     max_time  |-> b.max_time,
     min_time  |-> b.min_time,
     avg_pace  |-> str(b.avg_pace),
     slow_pace |-> str(b.slow_pace),
     fast_pace |-> str(b.fast_pace),
     avg_hr    |-> b.avg_hr,
     max_hr    |-> b.max_hr]

\* the group's ten columns of csv, in the order of csv_headers
CsvBlock(b) ==
    <<b.distance, b.count, b.avg_time, str(b.avg_pace), b.max_time, str(b.slow_pace),
      b.min_time, str(b.fast_pace), b.avg_hr, b.max_hr>>

\* nothing returned (yet, or because the call raised)
NoValue == [raised |-> FALSE, value |-> <<>>]

\* WorkoutSummary.as_dict
as_dict(ls) ==
    LET i == Block(summary_interval_laps(ls))
        r == Block(recovery_laps(ls))
    IN  IF BlockRaised(i) \/ BlockRaised(r)
        THEN [raised |-> TRUE, value |-> <<>>]
        ELSE [raised |-> FALSE,
              value |-> <<[time |-> WorkoutTime,
                           intervals |-> DictBlock(i),
                           recoveries |-> DictBlock(r)]>>]

\* WorkoutSummary.csv: the 21 values before they are joined by ","
csv(ls) ==
    LET i == Block(summary_interval_laps(ls))
        r == Block(recovery_laps(ls))
    IN  IF BlockRaised(i) \/ BlockRaised(r)
        THEN [raised |-> TRUE, value |-> <<>>]
        ELSE [raised |-> FALSE, value |-> <<WorkoutTime>> \o CsvBlock(i) \o CsvBlock(r)]

\* main: if not interval_laps: continue
NoIntervalLaps ==
    /\ pc = "returned"
    /\ intv_laps = <<>>
    /\ pc' = "skipped"
    /\ UNCHANGED matcher_vars
    /\ UNCHANGED <<pace_vars, lap_vars>>

\* main: workout = WorkoutSummary(interval_laps, ...)
NewWorkoutSummary ==
    /\ pc = "returned"
    /\ intv_laps # <<>>
    /\ workout' = intv_laps
    /\ pc' = "as_dict"
    /\ UNCHANGED <<laps, interval_pace_mps, min_interval_distance, start_idx, next_idx,
                   interval, intv_laps, spans, calls, dict_out, csv_out>>
    /\ UNCHANGED <<pace_vars, lap_vars>>

\* main: json.dumps([w.as_dict() for w in workouts])
AsDict ==
    /\ pc = "as_dict"
    /\ dict_out' = as_dict(workout)
    /\ pc' = IF as_dict(workout).raised THEN "raised" ELSE "csv"
    /\ UNCHANGED <<laps, interval_pace_mps, min_interval_distance, start_idx, next_idx,
                   interval, intv_laps, spans, calls, workout, csv_out>>
    /\ UNCHANGED <<pace_vars, lap_vars>>

\* main: print(workout.csv())
Csv ==
    /\ pc = "csv"
    /\ csv_out' = csv(workout)
    /\ pc' = IF csv(workout).raised THEN "raised" ELSE "printed"
    /\ UNCHANGED <<laps, interval_pace_mps, min_interval_distance, start_idx, next_idx,
                   interval, intv_laps, spans, calls, workout, dict_out>>
    /\ UNCHANGED <<pace_vars, lap_vars>>

(***************************************************************************)
(* The inputs.                                                             *)
(***************************************************************************)
\* laps a recorded run holds: a fast lap, a fast stride shorter than the minimum
\* distance, a slow lap, a standing rest, a lap at exactly 04:10 min/km, a lap
\* between 04:15 and 04:10 min/km
LapPool ==
    {Lap(400, 90, 150, 160), Lap(100, 20, 151, 165), Lap(400, 150, 120, 130),
     Lap(0, 60, 100, 110), Lap(1000, 250, 160, 170), Lap(400, 101, 140, 150)}

\* [fast(400m,90s), fast(400m,88s), slow(400m,150s), fast(400m,91s)]
ExampleLaps ==
    <<Lap(400, 90, 150, 160), Lap(400, 88, 152, 165), Lap(400, 150, 120, 130),
      Lap(400, 91, 155, 168)>>

\* every sequence of at most n elements of S
SeqsUpTo(S, n) == UNION {[1..k -> S] : k \in 0..n}

\* --interval-pace: the default 04:15, and 04:10 (4 m/s)
IntervalPaceArgs == {<<4, 15>>, <<4, 10>>}

\* the laps Lap.from_multiple is tried on
CombinePool ==
    LapPool \cup {Lap(1000, 300, 150, 160), Lap(100, 7, 151, 160)}

\* the arguments Pace is tried on
PaceDistances == (-2..MaxPaceArg) \cup {-1609, 400, 1000}

PaceTimes == (-2..MaxPaceArg) \cup {-300, 90, 239, 300}

MatcherIdle ==
    /\ laps = <<>>
    /\ interval_pace_mps = interval_pace(4, 15)
    /\ min_interval_distance = DefaultMinIntervalDistance
    /\ start_idx = -1
    /\ next_idx = 0
    /\ interval = <<>>
    /\ intv_laps = <<>>
    /\ spans = <<>>
    /\ calls = <<>>
    /\ workout = <<>>
    /\ dict_out = NoValue
    /\ csv_out = NoValue

PaceIdle ==
    /\ distance_m = 0
    /\ time_s = 0
    /\ pace = [raised |-> FALSE, pace |-> <<>>]

LapIdle ==
    /\ comb_laps = <<>>
    /\ aggr = [raised |-> FALSE, lap |-> Lap(0, 0, 0, 0)]

(***************************************************************************)
(* The main program on one activity.                                       *)
(***************************************************************************)
Init ==
    /\ laps \in SeqsUpTo(LapPool, MaxLaps) \cup {ExampleLaps}
    /\ \E a \in IntervalPaceArgs : interval_pace_mps = interval_pace(a[1], a[2])
    /\ min_interval_distance = DefaultMinIntervalDistance
    /\ pc = "interval_laps"
    /\ start_idx = -1
    /\ next_idx = 0
    /\ interval = <<>>
    /\ intv_laps = <<>>
    /\ spans = <<>>
    /\ calls = <<>>
    /\ workout = <<>>
    /\ dict_out = NoValue
    /\ csv_out = NoValue
    /\ PaceIdle
    /\ LapIdle

Next ==
    \/ NoSeed
    \/ SeedFound
    \/ WhileExit
    \/ NextInterval
    \/ Break
    \/ AppendInterval
    \/ AddRecovery
    \/ NoRecovery
    \/ NoIntervalLaps
    \/ NewWorkoutSummary
    \/ AsDict
    \/ Csv

Spec == Init /\ [][Next]_vars

(***************************************************************************)
(* Pace on its own.                                                        *)
(***************************************************************************)
\* Pace(distance_m, time_s)
NewPace ==
    /\ pc = "Pace"
    /\ LET p == Pace(distance_m, time_s) IN
        \/ /\ p.raised
           /\ pace' = [raised |-> TRUE, pace |-> <<>>]
        \/ /\ ~p.raised
           /\ \E s \in p.paces : pace' = [raised |-> FALSE, pace |-> s]
    /\ pc' = "pace_done"
    /\ UNCHANGED <<distance_m, time_s>>
    /\ UNCHANGED <<matcher_vars, lap_vars>>

InitPace ==
    /\ distance_m \in PaceDistances
    /\ time_s \in PaceTimes
    /\ pace = [raised |-> FALSE, pace |-> <<>>]
    /\ pc = "Pace"
    /\ MatcherIdle
    /\ LapIdle

NextPace == NewPace

SpecPace == InitPace /\ [][NextPace]_vars

(***************************************************************************)
(* Lap.from_multiple on its own.                                           *)
(***************************************************************************)
\* Lap.from_multiple(comb_laps)
FromMultiple ==
    /\ pc = "from_multiple"
    /\ aggr' \in from_multiple(comb_laps)
    /\ pc' = "aggr_done"
    /\ UNCHANGED comb_laps
    /\ UNCHANGED <<matcher_vars, pace_vars>>

InitLap ==
    /\ comb_laps \in SeqsUpTo(CombinePool, MaxCombine)
    /\ aggr = [raised |-> FALSE, lap |-> Lap(0, 0, 0, 0)]
    /\ pc = "from_multiple"
    /\ MatcherIdle
    /\ PaceIdle

NextLap == FromMultiple

SpecLap == InitLap /\ [][NextLap]_vars

(***************************************************************************)
(* What the claims speak of, stated apart from the operators above.        *)
(***************************************************************************)
\* the lap's pace, distance / time, is at or above the pace threshold
AtPace(lap) == lap.distance * interval_pace_mps.den >= interval_pace_mps.num * lap.time

\* the lap can seed an interval sequence: at pace, and long enough
SeedLap(lap) == AtPace(lap) /\ lap.distance >= min_interval_distance

HasSeed == \E j \in 1..Len(laps) : SeedLap(laps[j])

\* the 0-based index of the first seed lap
FirstSeed == (CHOOSE j \in 1..Len(laps) :
                 SeedLap(laps[j]) /\ \A h \in 1..(j - 1) : ~SeedLap(laps[h])) - 1

\* entry k of intv_laps (1-based) is an interval entry: an even index of the code
IntervalEntry(k) == k % 2 = 1

\* the first input lap behind entry k
FirstLapOf(k) == laps[spans[k].lo + 1]

(***************************************************************************)
(* C1: when the laps hold a seed lap, interval_laps returns, from the seed *)
(* index on, alternately the aggregate (Lap.from_multiple) of a run of     *)
(* consecutive laps at pace that ends only at a lap below pace or at the   *)
(* end of the input, and the single lap after that run, unmodified; a run  *)
(* that reaches the end of the input is the last entry.                    *)
(***************************************************************************)
C1_AlternatingRuns ==
    (pc = "returned" /\ HasSeed) =>
        /\ Len(intv_laps) >= 1
        /\ Len(spans) = Len(intv_laps)
        /\ spans[1].lo = FirstSeed
        /\ \A k \in 1..Len(spans) :
              /\ k > 1 => spans[k].lo = spans[k - 1].hi
              /\ IntervalEntry(k) =>
                    /\ spans[k].lo < spans[k].hi
                    /\ spans[k].hi <= Len(laps)
                    /\ \A j \in (spans[k].lo + 1)..spans[k].hi : AtPace(laps[j])
                    /\ spans[k].hi < Len(laps) => ~AtPace(laps[spans[k].hi + 1])
                    /\ [raised |-> FALSE, lap |-> intv_laps[k]]
                          \in from_multiple(SubSeq(laps, spans[k].lo + 1, spans[k].hi))
              /\ ~IntervalEntry(k) =>
                    /\ spans[k].hi = spans[k].lo + 1
                    /\ intv_laps[k] = laps[spans[k].lo + 1]
        /\ IntervalEntry(Len(spans)) => spans[Len(spans)].hi = Len(laps)

\* [fast, fast, slow, fast] at 4 m/s gives [combine(lap0, lap1), lap2, lap3]
C1_Witness ==
    /\ pc = "returned"
    /\ laps = ExampleLaps
    /\ interval_pace_mps = [num |-> 1000, den |-> 250]
    /\ intv_laps = <<Lap(800, 178, 151, 165), ExampleLaps[3], ExampleLaps[4]>>

(***************************************************************************)
(* C2: when no lap is both at pace and at least min_interval_distance      *)
(* long, interval_laps returns the empty sequence without raising and      *)
(* without aggregating anything, also when laps meet one of the two        *)
(* conditions.                                                             *)
(***************************************************************************)
C2_NoSeedGivesEmpty ==
    ~HasSeed =>
        /\ pc \in {"interval_laps", "returned", "skipped"}
        /\ pc = "returned" => (intv_laps = <<>> /\ calls = <<>>)

C2_Witness ==
    /\ pc = "returned"
    /\ intv_laps = <<>>
    /\ \E j \in 1..Len(laps) : AtPace(laps[j])
    /\ \E j \in 1..Len(laps) : laps[j].distance >= min_interval_distance

(***************************************************************************)
(* C3, as claimed: when interval_laps returns, no lap after the last       *)
(* consumed lap is at pace.                                                *)
(***************************************************************************)
C3_NoLaterLapAtPace ==
    (pc = "returned" /\ start_idx >= 0) =>
        \A j \in (next_idx + 1)..Len(laps) : ~AtPace(laps[j])

(***************************************************************************)
(* C3, amended: when interval_laps returns after it found a seed, every    *)
(* lap from the seed to next_idx was consumed, and either the input is     *)
(* exhausted or the scan stopped after a recovery lap because the lap      *)
(* right after it is below pace; laps further on are not looked at.        *)
(***************************************************************************)
C3_StopsAtFirstLapBelowPace ==
    (pc = "returned" /\ start_idx >= 0) =>
        /\ spans # <<>>
        /\ spans[Len(spans)].hi = next_idx
        /\ \/ next_idx = Len(laps)
           \/ /\ next_idx < Len(laps)
              /\ ~IntervalEntry(Len(spans))
              /\ ~AtPace(laps[next_idx + 1])

C3_Witness ==
    /\ pc = "returned"
    /\ Len(intv_laps) = 2
    /\ next_idx < Len(laps)
    /\ \E j \in (next_idx + 2)..Len(laps) : AtPace(laps[j])

RECURSIVE WeightedHr(_)
\* the sum of avg_hr * time over the laps
WeightedHr(ls) == IF ls = <<>> THEN 0 ELSE ls[1].avg_hr * ls[1].time + WeightedHr(Tail(ls))

(***************************************************************************)
(* C5, as claimed: from_multiple of a non-empty sequence of laps gives the *)
(* sum of the distances, the sum of the times, the greatest max_hr and the *)
(* time-weighted average of avg_hr rounded to an integer, so that k        *)
(* identical laps give the avg_hr and max_hr of the lap.                   *)
(***************************************************************************)
C5_WeightedAverage ==
    (pc = "aggr_done" /\ comb_laps # <<>>) =>
        /\ ~aggr.raised
        /\ aggr.lap.distance = SumOf(comb_laps, "distance")
        /\ aggr.lap.time = SumOf(comb_laps, "time")
        /\ \A j \in 1..Len(comb_laps) : aggr.lap.max_hr >= comb_laps[j].max_hr
        /\ \E j \in 1..Len(comb_laps) : aggr.lap.max_hr = comb_laps[j].max_hr
        /\ aggr.lap.avg_hr \in RoundFloat(WeightedHr(comb_laps), SumOf(comb_laps, "time"))
        /\ (\A j \in 1..Len(comb_laps) : comb_laps[j] = comb_laps[1]) =>
              /\ aggr.lap.avg_hr = comb_laps[1].avg_hr
              /\ aggr.lap.max_hr = comb_laps[1].max_hr

\* the value of a decimal digit
DigitVal(c) == CHOOSE v \in 0..9 : DigitChars[v + 1] = c

RECURSIVE Number(_)
\* the number a sequence of decimal digits writes
Number(ds) ==
    IF ds = <<>> THEN 0 ELSE 10 * Number(SubSeq(ds, 1, Len(ds) - 1)) + DigitVal(ds[Len(ds)])

AllDigits(ds) == \A j \in 1..Len(ds) : \E v \in 0..9 : DigitChars[v + 1] = ds[j]

\* the string is MM:SS: decimal digits, two of seconds, two or more of minutes
\* with no zero in front of a third
PaceFormat(p) ==
    /\ Len(p) >= 5
    /\ p[Len(p) - 2] = ":"
    /\ AllDigits(SubSeq(p, 1, Len(p) - 3))
    /\ AllDigits(SubSeq(p, Len(p) - 1, Len(p)))
    /\ Len(p) > 5 => p[1] # "0"

PaceMinutes(p) == Number(SubSeq(p, 1, Len(p) - 3))

PaceSeconds(p) == Number(SubSeq(p, Len(p) - 1, Len(p)))

\* the double behind the string fell just below a whole number of seconds per km
FellBelow(p) ==
    /\ (1000 * time_s) % distance_m = 0
    /\ 60 * PaceMinutes(p) + PaceSeconds(p) = (1000 * time_s) \div distance_m - 1

(***************************************************************************)
(* C6, as claimed: for distance_m > 0 and time_s > 0 the Pace string is    *)
(* MM:SS with MM = floor(min_per_km) and SS = round((min_per_km - MM) *    *)
(* 60), min_per_km = 1000 time_s / (60 distance_m).  (A string the double  *)
(* arithmetic puts one second below a whole number of seconds is let       *)
(* pass, so that what refutes the claim is the rounding alone.)            *)
(***************************************************************************)
C6_SecondsRounded ==
    (pc = "pace_done" /\ distance_m > 0 /\ time_s > 0) =>
        /\ ~pace.raised
        /\ PaceFormat(pace.pace)
        /\ \/ FellBelow(pace.pace)
           \/ /\ PaceMinutes(pace.pace) = (1000 * time_s) \div (60 * distance_m)
              /\ PaceSeconds(pace.pace) \in
                    RoundFloat(1000 * time_s - 60 * distance_m * PaceMinutes(pace.pace),
                               distance_m)

(***************************************************************************)
(* C6, amended: for distance_m > 0 and time_s > 0 the Pace string is       *)
(* MM:SS, zero-padded to two digits each, with the seconds cut, not        *)
(* rounded: 60 MM + SS is floor(1000 time_s / distance_m), or one less     *)
(* when 1000 time_s / distance_m is a whole number that the double         *)
(* arithmetic falls just below; SS is in 0..59, never 60.                  *)
(***************************************************************************)
C6_SecondsTruncated ==
    (pc = "pace_done" /\ distance_m > 0 /\ time_s > 0) =>
        /\ ~pace.raised
        /\ PaceFormat(pace.pace)
        /\ PaceSeconds(pace.pace) \in 0..59
        /\ \/ 60 * PaceMinutes(pace.pace) + PaceSeconds(pace.pace)
                = (1000 * time_s) \div distance_m
           \/ FellBelow(pace.pace)

\* Pace(7, 2): 285.7 seconds per km, cut to 04:45 where rounding gives 04:46
C6_Witness ==
    /\ pc = "pace_done"
    /\ distance_m = 7
    /\ time_s = 2
    /\ pace = [raised |-> FALSE, pace |-> <<"0", "4", ":", "4", "5">>]

\* the empty group's ten statistics, as as_dict gives them
EmptyDictBlock ==
    [distance  |-> 0, count |-> 0, avg_time |-> 0, max_time |-> 0, min_time |-> 0,
     avg_pace  |-> {<<"N", "o", "n", "e">>},
     slow_pace |-> {<<"N", "o", "n", "e">>},
     fast_pace |-> {<<"N", "o", "n", "e">>},
     avg_hr    |-> 0, max_hr |-> 0]

(***************************************************************************)
(* C7: a WorkoutSummary of exactly one lap has no recovery laps; as_dict   *)
(* and csv return without raising, and the recovery block is count 0,      *)
(* avg_hr 0, max_hr 0, the times and the distance 0.0, the three paces     *)
(* None.                                                                   *)
(***************************************************************************)
C7_EmptyRecoveryBlock ==
    Len(workout) = 1 =>
        /\ recovery_laps(workout) = <<>>
        /\ pc # "raised"
        /\ pc \in {"csv", "printed"} =>
              /\ ~dict_out.raised
              /\ dict_out.value[1].recoveries = EmptyDictBlock
              /\ dict_out.value[1].intervals.count = 1
        /\ pc = "printed" =>
              /\ ~csv_out.raised
              /\ Len(csv_out.value) = 21
              /\ csv_out.value[3] = 1
              /\ \A j \in {12, 13, 14, 16, 18, 20, 21} : csv_out.value[j] = 0
              /\ \A j \in {15, 17, 19} : csv_out.value[j] = {<<"N", "o", "n", "e">>}

C7_Witness ==
    /\ pc = "printed"
    /\ Len(workout) = 1
    /\ Len(laps) > 1
    /\ csv_out.value[13] = 0

(***************************************************************************)
(* C8, as claimed: constructing a Pace with time_s <= 0 or distance_m < 0  *)
(* fails; no Pace string is produced.                                      *)
(***************************************************************************)
C8_DomainError ==
    (pc = "pace_done" /\ (time_s <= 0 \/ distance_m < 0)) =>
        (pace.raised /\ pace.pace = <<>>)

(***************************************************************************)
(* C9: interval_laps calls Lap.from_multiple only with a non-empty slice   *)
(* of laps, whose total time is above 0, so it never raises; where no lap  *)
(* at pace stands at next_idx, _next_interval returns None without a call  *)
(* and leaves next_idx where it was.                                       *)
(***************************************************************************)
C9_FromMultipleNeverEmpty ==
    /\ pc # "interval_laps_raised"
    /\ \A k \in 1..Len(calls) :
          /\ Len(calls[k].laps) >= 1
          /\ calls[k].laps = SubSeq(laps, calls[k].start + 1, calls[k].end)
          /\ SumOf(calls[k].laps, "time") > 0
    /\ (pc = "if_interval" /\ interval = <<>>) =>
          /\ \A k \in 1..Len(calls) : calls[k].end < next_idx
          /\ next_idx < Len(laps)
          /\ ~AtPace(laps[next_idx + 1])

C9_Witness ==
    /\ pc = "returned"
    /\ interval = <<>>
    /\ Len(calls) = 1
    /\ Len(calls[1].laps) >= 2
    /\ next_idx < Len(laps)

(***************************************************************************)
(* C10: every interval entry (even index) of intv_laps has a pace at or    *)
(* above the pace threshold, and every recovery entry (odd index) a pace   *)
(* strictly below it.                                                      *)
(***************************************************************************)
C10_EntriesByPace ==
    \A k \in 1..Len(intv_laps) :
        IF IntervalEntry(k) THEN AtPace(intv_laps[k]) ELSE ~AtPace(intv_laps[k])

C10_Witness ==
    /\ pc = "returned"
    /\ Len(intv_laps) = 3
    /\ spans[1].hi - spans[1].lo = 2
    /\ intv_laps[1].distance * intv_laps[3].time # intv_laps[3].distance * intv_laps[1].time

====
